---- MODULE Spec2Model ----
(***************************************************************************)
(* AgentTrainer (src/imitation/policies/trainer.py): an SB3 algorithm is   *)
(* trained on a substituted reward while the episodes it experiences are   *)
(* recorded with the original environment rewards.                         *)
(*                                                                         *)
(* The trainer wires  VecEnv -> BufferingWrapper -> RewardVecEnvWrapper    *)
(* -> algorithm.  BufferingWrapper, RewardVecEnvWrapper and the algorithm  *)
(* are collaborators whose code is not in trainer.py; they are modelled    *)
(* from their documented contracts (TrajectoryBuffer,                      *)
(* RewardSubstitutionLayer, training-algorithm capability).                *)
(*                                                                         *)
(* Abstractions: observations are a small integer, actions are omitted.    *)
(* The environment is deterministic in what it shows (the observation of   *)
(* sub-environment i at step t is ObsAt(t, i)) and in its reward (a        *)
(* function of the observation); when an episode ends is free.  A recorded *)
(* step keeps (reward, done) and, as history, the reward the VecEnv itself *)
(* emitted for that step and a stamp: the train() call c and the step t of *)
(* that call in which it was taken.                                        *)
(***************************************************************************)
EXTENDS Integers, Sequences, FiniteSets, TLC

\* ---------------------------------------------------------------- bounds
NumEnvs == 2        \* N, number of sub-environments of the VecEnv
MaxTimesteps == 2   \* largest total_timesteps passed to train()
MaxCalls == 2       \* train() calls made on one trainer

Envs == 1..NumEnvs
Obs == {0, 1}
ObsAt(t, i) == (t + i) % 2   \* observation sub-environment i reaches at step t after a reset
EnvRew(x) == x       \* the environment's own reward for a step that reaches observation x
Orchs == {"o1", "o2"}
Algs == {"a1"}
Policies == 0..MaxCalls   \* policy objects: learn may install a new one
\* the errors algorithm.learn can raise: one for each step it can fail after
LearnError(n) == [kind |-> "LearnError", step |-> n]
NoError == [kind |-> "none", step |-> 0]
Errors == {LearnError(n) : n \in 0..MaxTimesteps}

\* ------------------------------------------------- environment handles
NoneEnv == [k |-> "none", id |-> "-"]
GymEnv == [k |-> "gym", id |-> "g1"]
RawEnv == [k |-> "raw", id |-> "v1"]
BufH(o) == [k |-> "buf", id |-> o]
RewH(o) == [k |-> "rew", id |-> o]

\* isinstance(venv, vec_env.VecEnv): VecEnvWrapper subclasses VecEnv
IsVecEnv(h) == h.k \in {"raw", "buf", "rew"}

\* ------------------------------------------------------ reward sources
\* A reward source is an object; `call` is what calling the object
\* computes, `predict` what its predict method computes (RewardNet only).
Mappings == {"const", "obsdep"}
NetMappings == {"obsdep"}

MapApply(m, x) ==
    CASE m = "const" -> 2
      [] m = "obsdep" -> 2 * x.obs
      [] m = "forward" -> x.obs + 5
      [] OTHER -> 0 - 1

RewardFn(m) == [shape |-> "fn", call |-> m, predict |-> "-"]
RewardNet(m) == [shape |-> "net", call |-> "forward", predict |-> m]
NoFn == [shape |-> "fn", call |-> "-", predict |-> "-"]
RewardSources == {RewardFn(m) : m \in Mappings} \cup {RewardNet(m) : m \in NetMappings}

\* reward_fn(obs, acts, next_obs, dones), for one sub-environment
Call(f, x) == MapApply(f.call, x)

\* the mapping a reward source stands for, whatever its shape
SourceMapping(f) == IF f.shape = "net" THEN f.predict ELSE f.call

Transition == {[obs |-> x, rew |-> EnvRew(x), done |-> d] : x \in Obs, d \in BOOLEAN}
\* what VecEnv.step can return at step t
Batches(t) == {[i \in Envs |-> [obs |-> ObsAt(t, i), rew |-> EnvRew(ObsAt(t, i)), done |-> d[i]]] :
                d \in [Envs -> BOOLEAN]}

VARIABLES
    algEnv,       \* algorithm.get_env() of each algorithm
    algPolicy,    \* algorithm.policy of each algorithm
    setEnvCalls,  \* number of algorithm.set_env calls made so far
    orch,         \* AgentTrainer objects: algorithm, reward_fn, buffering_wrapper, venv
    bufw,         \* BufferingWrapper objects: venv, trajectories, accum, and calls:
                  \* the calls made on the trainer's collaborators, in order, since
                  \* the caller's last operation returned
    roww,         \* RewardVecEnvWrapper objects: venv, reward_fn
    pc,           \* position of each trainer inside train()
    lastStep,     \* what the last environment step delivered to whom
    hist,         \* per trainer: bookkeeping about its train() calls
    conRes,       \* outcome of the last construction
    ret           \* what the caller's last completed operation returned

vars == <<algEnv, algPolicy, setEnvCalls, orch, bufw, roww, pc,
          lastStep, hist, conRes, ret>>

\* ------------------------------------------------------------ helpers
Range(s) == {s[i] : i \in 1..Len(s)}

\* identity of a finalized trajectory: sub-environment and stamp of its last step
TrajId(tj) == [env |-> tj.env, c |-> tj.steps[Len(tj.steps)].c, t |-> tj.steps[Len(tj.steps)].t]
Ids(s) == {TrajId(s[i]) : i \in 1..Len(s)}


NoOrch == [built |-> FALSE, algorithm |-> "a1", reward_fn |-> NoFn,
           buffering_wrapper |-> NoneEnv, venv |-> NoneEnv]
NoBuf == [venv |-> NoneEnv, trajectories |-> <<>>, accum |-> [i \in Envs |-> <<>>],
          calls |-> <<>>]
NoRow == [venv |-> NoneEnv, reward_fn |-> NoFn]
NoId == [env |-> 0, c |-> 0, t |-> 0]
NoHist == [calls |-> 0, dones |-> 0, tracked |-> NoId,
           fail |-> "no", failIds |-> {}, failLost |-> FALSE,
           origEnv |-> NoneEnv, source |-> NoFn]
NoRet == [op |-> "none", o |-> "o1", trajs |-> <<>>, policy |-> 0, calls |-> <<>>,
          err |-> NoError, raised |-> NoError, queued |-> <<>>]
NoStep == [has |-> FALSE, o |-> "o1", tr |-> [i \in Envs |-> [obs |-> 0, rew |-> 0, done |-> FALSE]],
           algRew |-> [i \in Envs |-> 0], bufRew |-> [i \in Envs |-> 0]]
NoCon == [status |-> "none", a |-> "a1", envBefore |-> NoneEnv, callsBefore |-> 0]

\* ------------------------------------------- wrapped chain (collaborators)
\* rewards that handle h returns from step() when the VecEnv emits batch tr
RECURSIVE RewOut(_, _)
RewOut(h, tr) ==
    CASE h.k = "raw" -> [i \in Envs |-> tr[i].rew]
      [] h.k = "buf" -> RewOut(bufw[h.id].venv, tr)
      [] h.k = "rew" -> [i \in Envs |-> Call(roww[h.id].reward_fn, tr[i])]
      [] OTHER -> [i \in Envs |-> 0 - 1]

\* the object at the bottom of the chain under handle h
RECURSIVE Bottom(_)
Bottom(h) ==
    CASE h.k = "buf" -> Bottom(bufw[h.id].venv)
      [] h.k = "rew" -> Bottom(roww[h.id].venv)
      [] OTHER -> h

\* the BufferingWrapper objects on the chain below (and including) h
RECURSIVE BufsIn(_)
BufsIn(h) ==
    CASE h.k = "buf" -> {h.id} \cup BufsIn(bufw[h.id].venv)
      [] h.k = "rew" -> BufsIn(roww[h.id].venv)
      [] OTHER -> {}

\* BufferingWrapper.step: append the step to each running episode; on done,
\* finalize the episode and enqueue it
RECURSIVE AddSteps(_, _, _, _, _, _)
AddSteps(b, rews, dones, stamp, raw, i) ==
    IF i > NumEnvs THEN b
    ELSE LET st == [c |-> stamp.c, t |-> stamp.t, rew |-> rews[i], done |-> dones[i],
                    env_rew |-> raw[i]]
             ep == Append(b.accum[i], st)
             b2 == IF dones[i]
                   THEN [b EXCEPT !.trajectories = Append(@, [env |-> i, steps |-> ep]),
                                  !.accum[i] = <<>>]
                   ELSE [b EXCEPT !.accum[i] = ep]
         IN AddSteps(b2, rews, dones, stamp, raw, i + 1)

\* a call is noted; consecutive steps are noted once
Noted(calls, c) ==
    IF c = "step" /\ calls # <<>> /\ calls[Len(calls)] = "step" THEN calls ELSE Append(calls, c)

\* BufferingWrapper.reset: clears queued and partial state
BufReset(b) == [b EXCEPT !.trajectories = <<>>, !.accum = [i \in Envs |-> <<>>],
                         !.calls = Noted(@, "reset")]

\* BufferingWrapper.pop_trajectories: return and clear the queue
BufPop(b) == [ret |-> b.trajectories,
              buf |-> [b EXCEPT !.trajectories = <<>>, !.calls = Noted(@, "pop")]]

\* h.step(actions) when the VecEnv emits tr
VenvStep(h, tr, stamp) ==
    [x \in Orchs |->
        IF x \in BufsIn(h)
        THEN [AddSteps(bufw[x], RewOut(bufw[x].venv, tr), [i \in Envs |-> tr[i].done], stamp,
                       [i \in Envs |-> tr[i].rew], 1) EXCEPT !.calls = Noted(@, "step")]
        ELSE bufw[x]]

\* h.reset()
VenvReset(h) == [x \in Orchs |-> IF x \in BufsIn(h) THEN BufReset(bufw[x]) ELSE bufw[x]]

TypeOK ==
    /\ algEnv \in [Algs -> {NoneEnv, GymEnv, RawEnv} \cup {BufH(o) : o \in Orchs} \cup {RewH(o) : o \in Orchs}]
    /\ algPolicy \in [Algs -> Policies]
    /\ \A o \in Orchs : pc[o].at \in {"idle", "learn"}

Init ==
    /\ algEnv \in [Algs -> {NoneEnv, GymEnv, RawEnv}]
    /\ algPolicy = [a \in Algs |-> 0]
    /\ setEnvCalls = [a \in Algs |-> 0]
    /\ orch = [o \in Orchs |-> NoOrch]
    /\ bufw = [o \in Orchs |-> NoBuf]
    /\ roww = [o \in Orchs |-> NoRow]
    /\ pc = [o \in Orchs |-> [at |-> "idle", total |-> 0, n |-> 0]]
    /\ lastStep = NoStep
    /\ hist = [o \in Orchs |-> NoHist]
    /\ conRes = NoCon
    /\ ret = NoRet

AllIdle == \A o \in Orchs : pc[o].at = "idle"

\* ------------------------------------------------------------ __init__
\* lines 37-39: a RewardNet is replaced by its bound predict method
\* faulty variant: the RewardNet object itself is kept and called
AdaptRewardFnRaw(reward_fn) == reward_fn

AdaptRewardFn(reward_fn) ==
    IF reward_fn.shape = "net"
    THEN [shape |-> "method", call |-> reward_fn.predict, predict |-> "-"]
    ELSE reward_fn

\* lines 48-52: buffering wrapper first, reward wrapper around it; the
\* reward wrapper is what the algorithm gets
\* faulty variant: reward wrapper inside, buffering wrapper outside
WrapChainSwapped(o, venv, fn) ==
    [row |-> [venv |-> venv, reward_fn |-> fn],
     buf |-> [venv |-> RewH(o), trajectories |-> <<>>, accum |-> [i \in Envs |-> <<>>],
              calls |-> <<>>],
     buffering_wrapper |-> BufH(o),
     venv |-> BufH(o)]

\* faulty variant: the algorithm is given the buffering wrapper
WrapChainBufferOnly(o, venv, fn) ==
    [buf |-> [venv |-> venv, trajectories |-> <<>>, accum |-> [i \in Envs |-> <<>>],
              calls |-> <<>>],
     row |-> [venv |-> BufH(o), reward_fn |-> fn],
     buffering_wrapper |-> BufH(o),
     venv |-> BufH(o)]

WrapChain(o, venv, fn) ==
    [buf |-> [venv |-> venv, trajectories |-> <<>>, accum |-> [i \in Envs |-> <<>>],
              calls |-> <<>>],
     row |-> [venv |-> BufH(o), reward_fn |-> fn],
     buffering_wrapper |-> BufH(o),
     venv |-> RewH(o)]

\* lines 41-43: the environment is validated before anything is wrapped or
\* rebound; the half-initialised trainer is dropped with the exception
\* faulty variant: set_env has already been called when the check raises
ConstructRaiseLate(o, a) ==
    /\ conRes' = [status |-> "ValueError", a |-> a, envBefore |-> algEnv[a],
                  callsBefore |-> setEnvCalls[a]]
    /\ algEnv' = [algEnv EXCEPT ![a] = RewH(o)]
    /\ setEnvCalls' = [setEnvCalls EXCEPT ![a] = @ + 1]
    /\ UNCHANGED <<orch, bufw, roww, hist>>

ConstructRaise(o, a) ==
    /\ conRes' = [status |-> "ValueError", a |-> a, envBefore |-> algEnv[a],
                  callsBefore |-> setEnvCalls[a]]
    /\ UNCHANGED <<algEnv, setEnvCalls, orch, bufw, roww, hist>>

\* AgentTrainer(algorithm, reward_fn), lines 36-52
Construct(o, a, reward_fn) ==
    LET fn == AdaptRewardFn(reward_fn)
        venv == algEnv[a]
        w == WrapChain(o, venv, fn)
    IN /\ AllIdle
       /\ ~orch[o].built
       /\ IF ~IsVecEnv(venv)
          THEN ConstructRaise(o, a)
          ELSE /\ orch' = [orch EXCEPT ![o] = [built |-> TRUE, algorithm |-> a, reward_fn |-> fn,
                                              buffering_wrapper |-> w.buffering_wrapper,
                                              venv |-> w.venv]]
               /\ bufw' = [bufw EXCEPT ![o] = w.buf]
               /\ roww' = [roww EXCEPT ![o] = w.row]
               /\ algEnv' = [algEnv EXCEPT ![a] = w.venv]
               /\ setEnvCalls' = [setEnvCalls EXCEPT ![a] = @ + 1]
               /\ hist' = [hist EXCEPT ![o] = [NoHist EXCEPT !.origEnv = venv, !.source = reward_fn]]
               /\ conRes' = [status |-> "ok", a |-> a, envBefore |-> venv,
                             callsBefore |-> setEnvCalls[a]]
       /\ ret' = [NoRet EXCEPT !.op = IF IsVecEnv(venv) THEN "construct" ELSE "construct_error",
                                !.o = o]
       /\ UNCHANGED <<algPolicy, pc, lastStep>>

\* --------------------------------------------------------------- train
\* line 66: self.venv.reset()
\* faulty variant: no reset
TrainResetSkipped(o) == bufw

TrainReset(o) == VenvReset(orch[o].venv)

\* line 67 raising: train() has no handler, nothing is cleaned up
\* faulty variant: the queue is emptied on the way out
OnLearnErrorDrain(o) ==
    [bufw EXCEPT ![orch[o].buffering_wrapper.id] = BufPop(@).buf]

OnLearnError(o) == bufw

\* line 67 is not inside a try block: the error leaves train() as it was raised
\* faulty variant: train() raises an error of its own instead
TrainRaisesOwn(e) == [kind |-> "TrainError", step |-> 0]

TrainRaises(e) == e

\* lines 74-75
\* faulty variant: a trajectory returned by an earlier call is returned again
pop_trajectories_stale(o) ==
    LET r == BufPop(bufw[orch[o].buffering_wrapper.id])
        old == hist[o].tracked
    IN [ret |-> IF old = NoId THEN r.ret
                ELSE <<[env |-> old.env,
                        steps |-> <<[c |-> old.c, t |-> old.t, rew |-> 0, done |-> TRUE,
                                     env_rew |-> 0]>>]>> \o r.ret,
        buf |-> r.buf]

\* faulty variant: the episodes still in progress are cut and returned too
pop_trajectories_flush(o) ==
    LET r == BufPop(bufw[orch[o].buffering_wrapper.id])
        part(i) == IF r.buf.accum[i] = <<>> THEN <<>>
                   ELSE <<[env |-> i, steps |-> r.buf.accum[i]]>>
        cut[i \in 0..NumEnvs] == IF i = 0 THEN <<>> ELSE cut[i - 1] \o part(i)
    IN [ret |-> r.ret \o cut[NumEnvs],
        buf |-> [r.buf EXCEPT !.accum = [i \in Envs |-> <<>>]]]

\* faulty variant: the queue is read and left as it is
pop_trajectories_peek(o) ==
    LET b == bufw[orch[o].buffering_wrapper.id]
    IN [ret |-> b.trajectories, buf |-> [b EXCEPT !.calls = Noted(@, "pop")]]

pop_trajectories(o) == BufPop(bufw[orch[o].buffering_wrapper.id])

\* lines 70-72
\* faulty variant: the policy object seen at construction is kept
policyAtInit(o) == 0

policy(o) == algPolicy[orch[o].algorithm]

\* faulty variant of TrainBegin: the wrapper's reward source is taken again,
\* on every call, from the object the caller passed at construction
TrainBeginRebind(o, total_timesteps) ==
    /\ AllIdle
    /\ orch[o].built
    /\ hist[o].calls < MaxCalls
    /\ bufw' = [TrainReset(o) EXCEPT ![orch[o].buffering_wrapper.id].calls = Noted(@, "learn")]
    /\ pc' = [pc EXCEPT ![o] = [at |-> "learn", total |-> total_timesteps, n |-> 0]]
    /\ LET lost == hist[o].fail = "pending" /\
                   ~(hist[o].failIds \subseteq Ids(bufw'[orch[o].buffering_wrapper.id].trajectories))
       IN hist' = [hist EXCEPT ![o].calls = @ + 1, ![o].dones = 0,
                               ![o].failLost = lost,
                               ![o].failIds = IF lost \/ hist[o].fail # "pending" THEN {} ELSE @,
                               ![o].fail = IF @ = "pending" THEN @ ELSE "no"]
    /\ roww' = [roww EXCEPT ![orch[o].venv.id].reward_fn = hist[o].source]
    /\ ret' = NoRet
    /\ UNCHANGED <<algEnv, algPolicy, setEnvCalls, orch, lastStep, conRes>>

\* train(total_timesteps) up to the point where learn starts stepping
TrainBegin(o, total_timesteps) ==
    /\ AllIdle
    /\ orch[o].built
    /\ hist[o].calls < MaxCalls
    /\ bufw' = [TrainReset(o) EXCEPT ![orch[o].buffering_wrapper.id].calls = Noted(@, "learn")]
    /\ pc' = [pc EXCEPT ![o] = [at |-> "learn", total |-> total_timesteps, n |-> 0]]
    /\ LET lost == hist[o].fail = "pending" /\
                   ~(hist[o].failIds \subseteq Ids(bufw'[orch[o].buffering_wrapper.id].trajectories))
       IN hist' = [hist EXCEPT ![o].calls = @ + 1, ![o].dones = 0,
                               ![o].failLost = lost,
                               ![o].failIds = IF lost \/ hist[o].fail # "pending" THEN {} ELSE @,
                               ![o].fail = IF @ = "pending" THEN @ ELSE "no"]
    /\ ret' = NoRet
    /\ UNCHANGED <<algEnv, algPolicy, setEnvCalls, orch, roww, lastStep, conRes>>

\* one env.step made by algorithm.learn through the algorithm's environment
LearnStep(o, tr) ==
    LET h == algEnv[orch[o].algorithm]
    IN /\ pc[o].at = "learn"
       /\ pc[o].n < pc[o].total
       /\ bufw' = VenvStep(h, tr, [c |-> hist[o].calls, t |-> pc[o].n + 1])
       /\ lastStep' = [has |-> TRUE, o |-> o, tr |-> tr, algRew |-> RewOut(h, tr),
                       bufRew |-> RewOut(bufw[orch[o].buffering_wrapper.id].venv, tr)]
       /\ pc' = [pc EXCEPT ![o].n = @ + 1]
       /\ hist' = [hist EXCEPT ![o].dones = @ + Cardinality({i \in Envs : tr[i].done})]
       /\ UNCHANGED <<algEnv, algPolicy, setEnvCalls, orch, roww, conRes, ret>>

\* algorithm.learn raises e: the error leaves train() as it is
LearnRaise(o, e) ==
    /\ pc[o].at = "learn"
    /\ bufw' = [OnLearnError(o) EXCEPT ![orch[o].buffering_wrapper.id].calls = <<>>]
    /\ pc' = [pc EXCEPT ![o] = [at |-> "idle", total |-> 0, n |-> 0]]
    /\ hist' = [hist EXCEPT ![o].fail = "pending", ![o].failLost = FALSE,
                            ![o].failIds = Ids(bufw[orch[o].buffering_wrapper.id].trajectories)]
    /\ ret' = [NoRet EXCEPT !.op = "train_error", !.o = o,
                            !.raised = e, !.err = TrainRaises(e),
                            !.calls = OnLearnError(o)[orch[o].buffering_wrapper.id].calls]
    /\ lastStep' = NoStep
    /\ UNCHANGED <<algEnv, algPolicy, setEnvCalls, orch, roww, conRes>>

\* algorithm.learn updates the policy; the policy object may be a new one
LearnedPolicy(p) == IF p < MaxCalls THEN p + 1 ELSE p

\* algorithm.learn returns (policy updated), then line 68
\* k: which of the returned trajectories is followed from now on (0: none)
TrainEnd(o, k) ==
    LET r == pop_trajectories(o)
    IN /\ pc[o].at = "learn"
       /\ k <= Len(r.ret)
       /\ (hist[o].tracked # NoId \/ hist[o].calls = MaxCalls) => k = 0
       /\ pc[o].n = pc[o].total
       /\ algPolicy' = [algPolicy EXCEPT ![orch[o].algorithm] = LearnedPolicy(@)]
       /\ bufw' = [bufw EXCEPT ![orch[o].buffering_wrapper.id] = [r.buf EXCEPT !.calls = <<>>]]
       /\ pc' = [pc EXCEPT ![o] = [at |-> "idle", total |-> 0, n |-> 0]]
       /\ hist' = [hist EXCEPT ![o].tracked = IF k = 0 THEN @ ELSE TrajId(r.ret[k]),
                               ![o].fail = IF @ = "pending" THEN "firstTrain" ELSE "no"]
       /\ ret' = [NoRet EXCEPT !.op = "train", !.o = o, !.trajs = r.ret, !.calls = r.buf.calls,
                               !.queued = bufw[orch[o].buffering_wrapper.id].trajectories]
       /\ lastStep' = NoStep
       /\ UNCHANGED <<algEnv, setEnvCalls, orch, roww, conRes>>

\* the caller drains the buffer itself
Drain(o) ==
    LET r == pop_trajectories(o)
    IN /\ AllIdle
       /\ orch[o].built
       /\ bufw' = [bufw EXCEPT ![orch[o].buffering_wrapper.id] = [r.buf EXCEPT !.calls = <<>>]]
       /\ hist' = [hist EXCEPT ![o].fail = IF @ = "pending" THEN "firstDrain" ELSE "no"]
       /\ ret' = [NoRet EXCEPT !.op = "drain", !.o = o, !.trajs = r.ret, !.calls = r.buf.calls]
       /\ UNCHANGED <<algEnv, algPolicy, setEnvCalls, orch, roww, pc,
                      lastStep, conRes>>

\* trainer.policy
PolicyRead(o) ==
    /\ AllIdle
    /\ orch[o].built
    /\ ret' = [NoRet EXCEPT !.op = "policy", !.o = o, !.policy = policy(o)]
    /\ UNCHANGED <<algEnv, algPolicy, setEnvCalls, orch, bufw, roww, pc,
                   lastStep, hist, conRes>>

\* ------------------------------------------------------- specification
\* a new trainer object takes the first unused identity
OrchOrder == <<"o1", "o2">>
NewOrch ==
    LET free == {i \in 1..Len(OrchOrder) : ~orch[OrchOrder[i]].built}
    IN IF free = {} THEN OrchOrder[1]
       ELSE OrchOrder[CHOOSE i \in free : \A j \in free : i <= j]

\* one trainer per algorithm instance
Wrapped(a) == algEnv[a].k \in {"buf", "rew"}

Next ==
    \/ \E a \in Algs, rf \in RewardSources : ~Wrapped(a) /\ Construct(NewOrch, a, rf)
    \/ \E o \in Orchs, total \in 0..MaxTimesteps : TrainBegin(o, total)
    \/ \E o \in Orchs : \E tr \in Batches(pc[o].n + 1) : LearnStep(o, tr)
    \/ \E o \in Orchs : LearnRaise(o, LearnError(pc[o].n))
    \/ \E o \in Orchs, k \in 0..(NumEnvs * MaxTimesteps) : TrainEnd(o, k)
    \/ \E o \in Orchs : Drain(o)
    \/ \E o \in Orchs : PolicyRead(o)

Spec == Init /\ [][Next]_vars

\* callers that also build a trainer over an algorithm that already has one
\* (lines 41-52 run whatever get_env() returns, as long as it is a VecEnv);
\* each trainer is followed through its first train() call
NextMulti ==
    \/ \E a \in Algs, rf \in RewardSources : Construct(NewOrch, a, rf)
    \/ \E o \in Orchs, total \in 0..MaxTimesteps : hist[o].calls = 0 /\ TrainBegin(o, total)
    \/ \E o \in Orchs : \E tr \in Batches(pc[o].n + 1) : LearnStep(o, tr)
    \/ \E o \in Orchs : TrainEnd(o, 0)
    \/ \E o \in Orchs : Drain(o)

SpecMulti == Init /\ [][NextMulti]_vars

\* ---------------------------------------------------------- properties
AllSteps(trajs) == UNION {Range(trajs[j].steps) : j \in 1..Len(trajs)}

\* C1: the number of trajectories a train() call returns equals the number
\* of done=true transitions seen in all sub-environments during that call
C1_CountEqualsDones ==
    \A o \in Orchs : (ret.op = "train" /\ ret.o = o) => Len(ret.trajs) = hist[o].dones

C1_Witness ==
    /\ ret.op = "train"
    /\ hist[ret.o].calls = 2
    /\ Len(ret.trajs) >= 3

\* C2: every step of every trajectory returned by train() carries the reward
\* the original VecEnv emitted for it, not the reward source's value
C2_TrueRewards ==
    ret.op = "train" => \A st \in AllSteps(ret.trajs) : st.rew = st.env_rew

C2_Witness ==
    /\ ret.op = "train"
    /\ \E j \in 1..Len(ret.trajs) :
          /\ Len(ret.trajs[j].steps) = 2
          /\ \E st \in Range(ret.trajs[j].steps) :
                Call(orch[ret.o].reward_fn, [obs |-> st.env_rew, rew |-> st.env_rew, done |-> st.done]) # st.env_rew

C4_FailedConstructNoMutation ==
    /\ conRes.status # "none" => (conRes.status = "ValueError" <=> ~IsVecEnv(conRes.envBefore))
    /\ conRes.status = "ValueError" =>
          /\ algEnv[conRes.a] = conRes.envBefore
          /\ setEnvCalls[conRes.a] = conRes.callsBefore
          /\ setEnvCalls[conRes.a] = 0
          /\ \A o \in Orchs : ~orch[o].built

C4_Witness ==
    conRes.status = "ValueError" /\ ret.op = "construct_error" /\ algEnv[conRes.a] = NoneEnv

\* C5: once built, the algorithm's environment is the trainer's reward
\* wrapper, which wraps the trainer's buffering wrapper, which wraps the
\* VecEnv the algorithm had at construction
C5_ChainOrder ==
    \A o \in Orchs : orch[o].built =>
        /\ algEnv[orch[o].algorithm] = orch[o].venv
        /\ orch[o].venv = RewH(o)
        /\ roww[o].venv = orch[o].buffering_wrapper
        /\ orch[o].buffering_wrapper = BufH(o)
        /\ bufw[o].venv = hist[o].origEnv
        /\ hist[o].origEnv = RawEnv

C5_Witness ==
    \E o \in Orchs : orch[o].built /\ hist[o].calls = 2 /\ hist[o].fail = "firstTrain"
                     /\ ret.op = "policy"

\* C6 as stated: the trajectories queued when learn failed are returned by
\* the next drain that succeeds, whether made directly or by train()
C6_ReturnedByNextDrain ==
    \A o \in Orchs :
        (hist[o].fail \in {"firstDrain", "firstTrain"} /\ ret.op \in {"drain", "train"} /\ ret.o = o)
            => (~hist[o].failLost /\ hist[o].failIds \subseteq Ids(ret.trajs))

\* C6 (amended): a failing learn leaves the queue as it is, and a drain made
\* before the next train() call returns what was queued at the failure
C6_KeptUntilNextTrain ==
    \A o \in Orchs :
        /\ (hist[o].fail = "pending" /\ pc[o].at = "idle")
              => Ids(bufw[orch[o].buffering_wrapper.id].trajectories) = hist[o].failIds
        /\ (hist[o].fail = "firstDrain" /\ ret.op = "drain" /\ ret.o = o)
              => Ids(ret.trajs) = hist[o].failIds

C6_Witness ==
    \E o \in Orchs : /\ hist[o].fail = "firstDrain"
                     /\ ret.op = "drain" /\ ret.o = o
                     /\ Cardinality(hist[o].failIds) >= 2

\* C7: every step of every trajectory returned by train() was taken during
\* that call, after its reset
C7_OnlyThisCall ==
    \A o \in Orchs :
        (ret.op = "train" /\ ret.o = o) =>
            \A st \in AllSteps(ret.trajs) : st.c = hist[o].calls

C7_Witness ==
    /\ ret.op = "train"
    /\ hist[ret.o].fail = "firstTrain"
    /\ hist[ret.o].failLost
    /\ ret.trajs # <<>>

\* C8: on each step of learn the algorithm receives the reward computed by
\* the trainer's reward_fn and the buffering wrapper sees the VecEnv's reward
C8_SubstitutedOutTrueIn ==
    lastStep.has =>
        \A i \in Envs :
            /\ lastStep.algRew[i] = Call(orch[lastStep.o].reward_fn, lastStep.tr[i])
            /\ lastStep.bufRew[i] = lastStep.tr[i].rew

C8_Witness ==
    lastStep.has /\ \E i \in Envs : lastStep.algRew[i] # lastStep.bufRew[i]

\* C9: reading .policy returns the algorithm's policy object and changes
\* nothing else
C9_PolicyIsAlgorithms ==
    /\ [](ret.op = "policy" => ret.policy = algPolicy[orch[ret.o].algorithm])
    /\ [][(ret'.op = "policy" /\ ret' # ret) =>
            UNCHANGED <<algEnv, algPolicy, setEnvCalls, orch, bufw, roww, pc,
                        lastStep, hist, conRes>>]_vars

C9_Witness ==
    ret.op = "policy" /\ ret.policy = 2 /\ hist[ret.o].calls = 2

\* C10: the reward delivered to the algorithm depends on the mapping the
\* reward source computes, not on whether it is a function or a RewardNet
C10_ShapeIndependent ==
    lastStep.has =>
        \A i \in Envs :
            lastStep.algRew[i] = MapApply(SourceMapping(hist[lastStep.o].source), lastStep.tr[i])

C10_Witness ==
    lastStep.has /\ hist[lastStep.o].source.shape = "net" /\ \E i \in Envs : lastStep.tr[i].obs = 1

\* C11: a train() call that returns made, in this order, one reset of the
\* wrapped chain, one call of learn, the steps learn takes, one drain; no
\* step before the reset, none after the drain
C11_ResetLearnDrain ==
    /\ ret.op = "train" =>
          ret.calls \in {<<"reset", "learn", "pop">>, <<"reset", "learn", "step", "pop">>}
    /\ \A o \in Orchs :
          /\ pc[o].at = "learn" =>
                bufw[orch[o].buffering_wrapper.id].calls
                    = IF pc[o].n = 0 THEN <<"reset", "learn">> ELSE <<"reset", "learn", "step">>
          /\ (pc[o].at = "idle" /\ orch[o].built) =>
                bufw[orch[o].buffering_wrapper.id].calls = <<>>

C11_Witness ==
    /\ ret.op = "train"
    /\ ret.calls = <<"reset", "learn", "step", "pop">>
    /\ hist[ret.o].calls = 2

\* C12: when learn raises, train() raises that same error, having called
\* learn once and the drain not at all; the trainer is idle again, accepts
\* the next train(), and that call makes its reset, learn, drain as usual
C12_ErrorPropagates ==
    /\ ret.op = "train_error" =>
          /\ ret.err = ret.raised
          /\ ret.err \in Errors
          /\ ret.calls \in {<<"reset", "learn">>, <<"reset", "learn", "step">>}
          /\ pc[ret.o].at = "idle"
          /\ hist[ret.o].calls < MaxCalls => ENABLED TrainBegin(ret.o, 1)
    /\ (ret.op = "train" /\ hist[ret.o].fail = "firstTrain") =>
          ret.calls \in {<<"reset", "learn", "pop">>, <<"reset", "learn", "step", "pop">>}

C12_Witness ==
    /\ ret.op = "train"
    /\ hist[ret.o].fail = "firstTrain"
    /\ hist[ret.o].failLost
    /\ ret.calls = <<"reset", "learn", "step", "pop">>

\* C13: every trajectory train() returns ends with its only done=true
\* step; an episode still running when the call ends is kept in the buffer
\* and none of its steps is in the returned list: for each sub-environment
\* the returned steps followed by the kept ones are the steps of the call
StepsOf(trajs, i) == UNION {Range(trajs[j].steps) : j \in {x \in 1..Len(trajs) : trajs[x].env = i}}

C13_OnlyFinishedEpisodes ==
    ret.op = "train" =>
       LET b == bufw[orch[ret.o].buffering_wrapper.id]
           kept(i) == {s.t : s \in Range(b.accum[i])}
           out(i) == {s.t : s \in StepsOf(ret.trajs, i)}
       IN /\ \A j \in 1..Len(ret.trajs) :
                LET st == ret.trajs[j].steps
                IN /\ st # <<>>
                   /\ \A x \in 1..Len(st) : st[x].done <=> x = Len(st)
          /\ \A i \in Envs :
                /\ \A s \in Range(b.accum[i]) : ~s.done /\ s.c = hist[ret.o].calls
                /\ kept(i) \cap out(i) = {}
                /\ \A x \in kept(i), y \in out(i) : y < x
                /\ Cardinality(kept(i)) = Len(b.accum[i])
                /\ \E n \in 0..MaxTimesteps : \A e \in Envs : kept(e) \cup out(e) = 1..n

C13_Witness ==
    /\ ret.op = "train"
    /\ ret.trajs # <<>>
    /\ \E i \in Envs : Len(bufw[orch[ret.o].buffering_wrapper.id].accum[i]) = MaxTimesteps
    /\ hist[ret.o].calls = 2

\* C14: the reward source is bound once, at construction: no operation
\* after it changes the trainer's reward_fn or the reward wrapper's, and
\* every step of every train() call computes the algorithm's reward with it
C14_SourceBoundOnce ==
    /\ [](\A o \in Orchs : orch[o].built =>
             /\ orch[o].reward_fn = AdaptRewardFn(hist[o].source)
             /\ roww[orch[o].venv.id].reward_fn = orch[o].reward_fn
             /\ (lastStep.has /\ lastStep.o = o) =>
                   \A i \in Envs :
                       lastStep.algRew[i] = Call(AdaptRewardFn(hist[o].source), lastStep.tr[i]))
    /\ [][\A o \in Orchs : orch[o].built =>
             /\ orch'[o].reward_fn = orch[o].reward_fn
             /\ roww'[orch[o].venv.id].reward_fn = roww[orch[o].venv.id].reward_fn]_vars

C14_Witness ==
    /\ lastStep.has
    /\ hist[lastStep.o].calls = 2
    /\ hist[lastStep.o].source.shape = "net"
    /\ roww[orch[lastStep.o].venv.id].reward_fn.shape = "method"

\* C15: no two trainers have the same VecEnv at the bottom of their
\* wrapping chains, whatever constructions were made, a second trainer over
\* an already wrapped algorithm included
C15_ExclusiveVecEnv ==
    \A o1, o2 \in Orchs :
        (o1 # o2 /\ orch[o1].built /\ orch[o2].built) =>
            Bottom(orch[o1].venv) # Bottom(orch[o2].venv)

\* C16: the list train() returns is the whole queue as it was when the
\* drain was made, in queue order, and the queue is empty from then on while
\* the trainer is idle
C16_QueueEmptyAfterTrain ==
    /\ ret.op = "train" => ret.trajs = ret.queued
    /\ \A o \in Orchs :
          (orch[o].built /\ pc[o].at = "idle" /\ hist[o].fail # "pending") =>
              bufw[orch[o].buffering_wrapper.id].trajectories = <<>>

C16_Witness ==
    /\ ret.op = "train"
    /\ Len(ret.queued) >= 2
    /\ ret.queued[1].env # ret.queued[2].env
    /\ bufw[orch[ret.o].buffering_wrapper.id].trajectories = <<>>

====
